---- MODULE Spec2Model ----
(***************************************************************************)
(* Model of Scripts/model_selection_utils.py: the model-id resolver        *)
(* (findModelId), the keyword extractor (getModelSearchKeywords) and the   *)
(* convenience wrapper (setModelById), run against the model collection,   *)
(* the parameter node and the search box of the host application.          *)
(*                                                                         *)
(* A Python str is a sequence of one-character strings, so that the        *)
(* regular expression, startswith, split, lower and join are computed      *)
(* character by character.                                                 *)
(***************************************************************************)
EXTENDS Integers, Sequences, FiniteSets, TLC

VARIABLES
    models,      \* logic.models: the host's ordered collection of descriptors
    param,       \* the value of parameter "Model" in the parameter node
    searchText,  \* the text of the widget "modelSearchBox"
    last,        \* the call in progress: its arguments and its outcome
    test,        \* test_Slicer4Minute1: its position and its local variables
    scene,       \* the segment names of the segmentation node in the scene
    files        \* the Translations directories and the Annotations directory

vars == <<models, param, searchText, last, test, scene, files>>

---------------------------------------------------------------------------
(* Bounds of the model.                                                    *)

\* Longest freely chosen part of a collection.
MaxModels == 2
\* Longest run of generated descriptors appended to a collection.
MaxFill == 13

---------------------------------------------------------------------------
(* Strings.                                                                *)

NL == "\n"
Digits == {"0", "1", "2"}
Whitespace == {" ", "\t", NL}

UpperChars == <<"A","B","C","D","E","F","G","H","I","J","K","L","M",
                "N","O","P","Q","R","S","T","U","V","W","X","Y","Z">>
LowerChars == <<"a","b","c","d","e","f","g","h","i","j","k","l","m",
                "n","o","p","q","r","s","t","u","v","w","x","y","z">>

\* str.startswith
StartsWith(s, p) ==
    /\ Len(p) <= Len(s)
    /\ SubSeq(s, 1, Len(p)) = p

\* one character of str.lower()
LowerChar(c) ==
    IF \E i \in 1..Len(UpperChars) : UpperChars[i] = c
    THEN LowerChars[CHOOSE i \in 1..Len(UpperChars) : UpperChars[i] = c]
    ELSE c

\* str.lower()
Lower(s) == [i \in 1..Len(s) |-> LowerChar(s[i])]

\* seq[:n]
Take(s, n) == SubSeq(s, 1, IF Len(s) < n THEN Len(s) ELSE n)

---------------------------------------------------------------------------
(* The regular expression of findModelId, ^(.+)-v\d+\.\d+\.\d+$ under      *)
(* re.match: "." is any character but a newline, \d a digit, and "$"       *)
(* matches at the end of the string and also just before a newline that    *)
(* ends the string.                                                        *)

\* \d+\.\d+\.\d+ : three non-empty runs of digits separated by two dots
IsDottedTriple(t) ==
    /\ Len(t) > 0
    /\ \A i \in 1..Len(t) : t[i] \in Digits \cup {"."}
    /\ Cardinality({i \in 1..Len(t) : t[i] = "."}) = 2
    /\ t[1] # "."
    /\ t[Len(t)] # "."
    /\ \A i \in 1..(Len(t) - 1) : ~(t[i] = "." /\ t[i + 1] = ".")

\* -v\d+\.\d+\.\d+ matched against the whole of t
IsVersionSuffix(t) ==
    /\ Len(t) >= 2
    /\ t[1] = "-"
    /\ t[2] = "v"
    /\ IsDottedTriple(SubSeq(t, 3, Len(t)))

\* -v\d+\.\d+\.\d+$ matched against the whole of t
SuffixMatches(t) ==
    \/ IsVersionSuffix(t)
    \/ /\ Len(t) > 0
       /\ t[Len(t)] = NL
       /\ IsVersionSuffix(SubSeq(t, 1, Len(t) - 1))

\* the lengths group 1 can take: a non-empty prefix without newline, followed
\* by a match of the rest of the pattern
GroupEnds(s) ==
    {k \in 1..Len(s) :
        /\ \A i \in 1..k : s[i] # NL
        /\ SuffixMatches(SubSeq(s, k + 1, Len(s)))}

\* Faulty variant: the pattern is lazy and not anchored at the end, so group 1
\* stops before the first version-like part.
ReMatchFirstSuffix(s) ==
    LET ends == {k \in 1..Len(s) :
                    /\ \A i \in 1..k : s[i] # NL
                    /\ \E e \in (k + 1)..Len(s) :
                           IsVersionSuffix(SubSeq(s, k + 1, e))}
    IN  IF ends = {}
        THEN [matched |-> FALSE, group1 |-> <<>>]
        ELSE [matched |-> TRUE,
              group1 |-> SubSeq(s, 1, CHOOSE k \in ends : \A j \in ends : k <= j)]

\* re.match(r"^(.+)-v\d+\.\d+\.\d+$", s): whether it matched, and group(1);
\* the greedy (.+) takes the longest prefix that lets the rest match
ReMatch(s) ==
    IF GroupEnds(s) = {}
    THEN [matched |-> FALSE, group1 |-> <<>>]
    ELSE [matched |-> TRUE,
          group1 |-> SubSeq(s, 1, CHOOSE k \in GroupEnds(s) :
                                      \A j \in GroupEnds(s) : j <= k)]

---------------------------------------------------------------------------
(* Model descriptors.  The key "deprecated" may be absent.                 *)

\* model.get("deprecated", False)
GetDeprecated(model) ==
    IF "deprecated" \in DOMAIN model THEN model.deprecated ELSE FALSE

\* [f(m) for m in seq if keep(m)], in order
RECURSIVE SelectIds(_, _)
SelectIds(seq, includeDeprecated) ==
    IF seq = <<>>
    THEN <<>>
    ELSE IF includeDeprecated \/ ~GetDeprecated(Head(seq))
         THEN <<Head(seq).id>> \o SelectIds(Tail(seq), includeDeprecated)
         ELSE SelectIds(Tail(seq), includeDeprecated)

\* the first 10 available ids are shown in the error message
ShowCap == 10

---------------------------------------------------------------------------
(* findModelId                                                            *)

\* Faulty variant: the exact-match loop passes over deprecated models.
HasExactMatchSkippingDeprecated(preferredModelId, ms) ==
    \E i \in 1..Len(ms) :
        ms[i]["id"] = preferredModelId /\ ~GetDeprecated(ms[i])

\* the exact-match loop: some model has the preferred id
HasExactMatch(preferredModelId, ms) ==
    \E i \in 1..Len(ms) : ms[i]["id"] = preferredModelId

\* Faulty variant: the fallback search keeps deprecated models.
MatchingModelsWithDeprecated(baseName, ms) ==
    SelectSeq(ms, LAMBDA model :
        StartsWith(model["id"], baseName \o <<"-", "v">>))

\* matchingModels of the fallback search
MatchingModels(baseName, ms) ==
    SelectSeq(ms, LAMBDA model :
        /\ StartsWith(model["id"], baseName \o <<"-", "v">>)
        /\ ~GetDeprecated(model))

\* Faulty variant: the count of further ids starts one id too early.
ModelNotFoundCountingEarly(preferredModelId, ms) ==
    LET availableIds == SelectIds(ms, FALSE)
    IN  [kind |-> "ValueError",
         requested |-> preferredModelId,
         listed |-> Take(availableIds, ShowCap),
         more |-> IF Len(availableIds) >= ShowCap
                  THEN <<Len(availableIds) - ShowCap>>
                  ELSE <<>>]

\* the ValueError of findModelId: its message names the preferred id, lists
\* availableIds[:10] and, when there are more, how many more
ModelNotFound(preferredModelId, ms) ==
    LET availableIds == SelectIds(ms, FALSE)
    IN  [kind |-> "ValueError",
         requested |-> preferredModelId,
         listed |-> Take(availableIds, ShowCap),
         more |-> IF Len(availableIds) > ShowCap
                  THEN <<Len(availableIds) - ShowCap>>
                  ELSE <<>>]

Returned(id) == [kind |-> "return", value |-> id]

HostUnavailable == [kind |-> "ImportError"]

\* Faulty variant: when the fallback finds a candidate, the requested id is
\* handed back instead of the candidate's.
ResolveReturningRequested(preferredModelId, ms) ==
    IF HasExactMatch(preferredModelId, ms)
    THEN Returned(preferredModelId)
    ELSE LET match == ReMatch(preferredModelId)
             matchingModels == MatchingModels(match.group1, ms)
         IN  IF match.matched /\ matchingModels # <<>>
             THEN Returned(preferredModelId)
             ELSE ModelNotFound(preferredModelId, ms)

\* findModelId(preferredModelId, logic) once logic is at hand
Resolve(preferredModelId, ms) ==
    IF HasExactMatch(preferredModelId, ms)
    THEN Returned(preferredModelId)
    ELSE LET match == ReMatch(preferredModelId)
             matchingModels == MatchingModels(match.group1, ms)
         IN  IF match.matched /\ matchingModels # <<>>
             THEN Returned(matchingModels[1]["id"])
             ELSE ModelNotFound(preferredModelId, ms)

\* How the caller passes logic: "given" passes the logic object, "default"
\* passes None with the extension importable, "unavailable" passes None with
\* the import of MONAIAuto3DSeg failing.
LogicEnvs == {"given", "default", "unavailable"}

\* Faulty variant: the failed import is reported as a model that is not found.
FindModelIdBlurringErrors(preferredModelId, env, ms) ==
    IF env = "unavailable"
    THEN ModelNotFound(preferredModelId, <<>>)
    ELSE Resolve(preferredModelId, ms)

\* findModelId(preferredModelId, logic=None)
FindModelId(preferredModelId, env, ms) ==
    IF env = "unavailable"
    THEN HostUnavailable
    ELSE Resolve(preferredModelId, ms)

---------------------------------------------------------------------------
(* Slicer4MinuteTest.findModelId, the copy of the resolver in the tutorial *)

\* matchingModels of the tutorial's fallback search
TutorialMatchingModels(baseName, ms) ==
    SelectSeq(ms, LAMBDA model :
        StartsWith(model["id"], baseName \o <<"-", "v">>))

\* the error message shows the ids of logic.models[:5]
TutorialShowCap == 5

\* the ValueError of the tutorial's copy
TutorialModelNotFound(preferredModelId, ms) ==
    [kind |-> "ValueError",
     requested |-> preferredModelId,
     listed |-> [i \in 1..Len(Take(ms, TutorialShowCap)) |-> ms[i]["id"]],
     more |-> <<>>]

\* Slicer4MinuteTest.findModelId(preferredModelId, logic=None); the import is
\* not guarded, so a missing extension raises ImportError
TutorialFindModelId(preferredModelId, env, ms) ==
    IF env = "unavailable"
    THEN HostUnavailable
    ELSE IF HasExactMatch(preferredModelId, ms)
         THEN Returned(preferredModelId)
         ELSE LET match == ReMatch(preferredModelId)
                  matchingModels == TutorialMatchingModels(match.group1, ms)
              IN  IF match.matched /\ matchingModels # <<>>
                  THEN Returned(matchingModels[1]["id"])
                  ELSE TutorialModelNotFound(preferredModelId, ms)

---------------------------------------------------------------------------
(* getModelSearchKeywords                                                  *)

\* str.split(): the maximal runs of non-whitespace characters, in order
RECURSIVE SplitFrom(_, _, _, _)
SplitFrom(s, i, cur, out) ==
    IF i > Len(s)
    THEN IF cur = <<>> THEN out ELSE Append(out, cur)
    ELSE IF s[i] \in Whitespace
         THEN SplitFrom(s, i + 1, <<>>, IF cur = <<>> THEN out ELSE Append(out, cur))
         ELSE SplitFrom(s, i + 1, Append(cur, s[i]), out)

Split(s) == SplitFrom(s, 1, <<>>, <<>>)

\* " ".join(words)
RECURSIVE Join(_)
Join(words) ==
    IF words = <<>>
    THEN <<>>
    ELSE IF Len(words) = 1
         THEN words[1]
         ELSE words[1] \o <<" ">> \o Join(Tail(words))

\* skipWords
SkipWords ==
    << <<"s","e","g","m","e","n","t","a","t","i","o","n">>,
       <<"q","u","i","c","k">>,
       <<"-">>,
       <<"t","s","1">>,
       <<"t","s","2">>,
       <<"v","1">>,
       <<"v","2">>,
       <<"t","h","e">> >>

\* words of at most this many characters are skipped
ShortWordLen == 2
\* the loop stops once it has this many keywords
KeywordCap == 2

\* Faulty variant: the stop-words are compared without lower().
IsKeywordCaseSensitive(word) ==
    /\ \A i \in 1..Len(SkipWords) : SkipWords[i] # word
    /\ Len(word) > ShortWordLen

\* `word.lower() not in skipWords and len(word) > 2`
IsKeyword(word) ==
    /\ \A i \in 1..Len(SkipWords) : SkipWords[i] # Lower(word)
    /\ Len(word) > ShortWordLen

\* the loop over words, with its break
RECURSIVE CollectKeywords(_, _)
CollectKeywords(words, keywords) ==
    IF words = <<>>
    THEN keywords
    ELSE IF IsKeyword(Head(words))
         THEN IF Len(keywords) + 1 >= KeywordCap
              THEN Append(keywords, Head(words))
              ELSE CollectKeywords(Tail(words), Append(keywords, Head(words)))
         ELSE CollectKeywords(Tail(words), keywords)

\* Faulty variant: no keyword gives the empty string, not the first word.
KeywordsOfTitleWithoutFallback(translatedTitle) ==
    LET words == Split(translatedTitle)
        keywords == CollectKeywords(words, <<>>)
    IN  IF keywords # <<>> THEN Join(keywords) ELSE <<>>

\* the body of the loop for the model found
KeywordsOfTitle(translatedTitle) ==
    LET words == Split(translatedTitle)
        keywords == CollectKeywords(words, <<>>)
    IN  IF keywords # <<>>
        THEN Join(keywords)
        ELSE IF words # <<>> THEN words[1] ELSE <<>>

\* Titles of the descriptors, and one translation the host knows.
TitleTwo == <<"A","b","c"," ","X","y","z">>
TitleFour == <<"A","b","c"," ","T","h","e"," ","X","y","z"," ","D","e","f">>
TitleSpaced == <<" ","A","b","c"," "," ","T","S","1","\t","X","y","z"," ">>
TitleOne == <<"Q","u","i","c","k"," ","A","b","c"," ","v","2">>
TitleStops == <<"T","S","1"," ","C","T">>
TitleBlank == <<" "," ">>
TitleTwoTranslated == <<"Q","r","s"," ","t","h","e"," ","A","b","c">>

\* The test's own copy of getModelSearchKeywords has no "the" in skipWords.
TutorialSkipWords == SubSeq(SkipWords, 1, Len(SkipWords) - 1)

TutorialIsKeyword(word) ==
    /\ \A i \in 1..Len(TutorialSkipWords) : TutorialSkipWords[i] # Lower(word)
    /\ Len(word) > ShortWordLen

RECURSIVE TutorialCollectKeywords(_, _)
TutorialCollectKeywords(words, keywords) ==
    IF words = <<>>
    THEN keywords
    ELSE IF TutorialIsKeyword(Head(words))
         THEN IF Len(keywords) + 1 >= KeywordCap
              THEN Append(keywords, Head(words))
              ELSE TutorialCollectKeywords(Tail(words),
                                           Append(keywords, Head(words)))
         ELSE TutorialCollectKeywords(Tail(words), keywords)

TutorialKeywordsOfTitle(translatedTitle) ==
    LET words == Split(translatedTitle)
        keywords == TutorialCollectKeywords(words, <<>>)
    IN  IF keywords # <<>>
        THEN Join(keywords)
        ELSE IF words # <<>> THEN words[1] ELSE <<>>

\* How the call gets translate: "identity" when slicer cannot be imported
\* (the lambda), "host" for slicer.i18n.translate with a translation loaded.
TranslateEnvs == {"identity", "host"}

\* translate("Models", text): a lookup keyed by the exact text
Translate(tr, text) ==
    IF tr = "host" /\ text = TitleTwo THEN TitleTwoTranslated ELSE text

\* the index of the first model with this id, 0 when there is none
FirstIndex(modelId, ms) ==
    IF \E i \in 1..Len(ms) : ms[i]["id"] = modelId
    THEN CHOOSE i \in 1..Len(ms) :
             /\ ms[i]["id"] = modelId
             /\ \A j \in 1..(i - 1) : ms[j]["id"] # modelId
    ELSE 0

\* Faulty variant: the failed import is raised, as findModelId does.
GetModelSearchKeywordsRaising(modelId, env, tr, ms) ==
    IF env = "unavailable"
    THEN HostUnavailable
    ELSE IF FirstIndex(modelId, ms) = 0
         THEN Returned(<<>>)
         ELSE Returned(KeywordsOfTitle(
                  Translate(tr, ms[FirstIndex(modelId, ms)]["title"])))

\* getModelSearchKeywords(modelId, logic=None)
GetModelSearchKeywords(modelId, env, tr, ms) ==
    IF env = "unavailable"
    THEN Returned(<<>>)
    ELSE IF FirstIndex(modelId, ms) = 0
         THEN Returned(<<>>)
         ELSE Returned(KeywordsOfTitle(
                  Translate(tr, ms[FirstIndex(modelId, ms)]["title"])))

\* Slicer4MinuteTest.getModelSearchKeywords(modelId, logic) with logic given
TutorialGetModelSearchKeywords(modelId, tr, ms) ==
    IF FirstIndex(modelId, ms) = 0
    THEN <<>>
    ELSE TutorialKeywordsOfTitle(
             Translate(tr, ms[FirstIndex(modelId, ms)]["title"]))

---------------------------------------------------------------------------
(* listAvailableModels and findModelsByBaseName                            *)

\* model.get(key, default)
GetField(model, key, default) ==
    IF key \in DOMAIN model THEN model[key] ELSE default

\* the dictionary listAvailableModels builds for one model
Summary(model) ==
    [id |-> model["id"],
     title |-> model["title"],
     version |-> model["version"],
     description |-> GetField(model, "description", <<>>),
     imagingModality |-> GetField(model, "imagingModality", <<>>),
     deprecated |-> GetField(model, "deprecated", FALSE)]

\* the loop of listAvailableModels
RECURSIVE Summaries(_, _)
Summaries(seq, showDeprecated) ==
    IF seq = <<>>
    THEN <<>>
    ELSE IF ~showDeprecated /\ GetDeprecated(Head(seq))
         THEN Summaries(Tail(seq), showDeprecated)
         ELSE <<Summary(Head(seq))>> \o Summaries(Tail(seq), showDeprecated)

\* Faulty variant: deprecated models are listed whatever showDeprecated is.
ListAvailableModelsShowingAll(env, showDeprecated, ms) ==
    IF env = "unavailable"
    THEN HostUnavailable
    ELSE Returned(Summaries(ms, TRUE))

\* listAvailableModels(logic=None, showDeprecated=False); the import is not
\* guarded, so a missing extension raises ImportError
ListAvailableModels(env, showDeprecated, ms) ==
    IF env = "unavailable"
    THEN HostUnavailable
    ELSE Returned(Summaries(ms, showDeprecated))

\* the loop of findModelsByBaseName
RECURSIVE MatchingIds(_, _, _)
MatchingIds(seq, baseName, includeDeprecated) ==
    IF seq = <<>>
    THEN <<>>
    ELSE IF /\ StartsWith(Head(seq)["id"], baseName \o <<"-", "v">>)
            /\ (includeDeprecated \/ ~GetDeprecated(Head(seq)))
         THEN <<Head(seq)["id"]>> \o MatchingIds(Tail(seq), baseName, includeDeprecated)
         ELSE MatchingIds(Tail(seq), baseName, includeDeprecated)

\* Faulty variant: deprecated versions are included whatever the flag is.
FindModelsByBaseNameKeepingDeprecated(baseName, env, includeDeprecated, ms) ==
    IF env = "unavailable"
    THEN HostUnavailable
    ELSE Returned(MatchingIds(ms, baseName, TRUE))

\* findModelsByBaseName(baseName, logic=None, includeDeprecated=False)
FindModelsByBaseName(baseName, env, includeDeprecated, ms) ==
    IF env = "unavailable"
    THEN HostUnavailable
    ELSE Returned(MatchingIds(ms, baseName, includeDeprecated))

---------------------------------------------------------------------------
(* setModelById                                                            *)

\* What happens in the try block that fills the search box: "noSlicer" the
\* import of slicer fails, "lookupFails" findChild raises, "noWidget" the
\* widget found is falsy, "keywordsFail" getModelSearchKeywords raises,
\* "setTextFails" setText raises, "ok" setText sets the text.
UiOutcomes ==
    {"noSlicer", "lookupFails", "noWidget", "keywordsFail", "setTextFails", "ok"}

\* the try block with its bare except: the text of the search box afterwards
SearchBoxAfter(actualModelId, useTranslatedKeywords, ui, tr, ms, text) ==
    IF ui = "ok"
    THEN IF useTranslatedKeywords
         THEN GetModelSearchKeywords(actualModelId, "given", tr, ms).value
         ELSE <<>>
    ELSE text

\* Faulty variant: the parameter is set to the id asked for.
SetModelByIdStoringRequested(modelId, env, useTranslatedKeywords, ui, tr, ms, p, text) ==
    IF env = "unavailable"
    THEN [out |-> HostUnavailable, param |-> p, searchText |-> text]
    ELSE LET found == FindModelId(modelId, "given", ms)
         IN  IF found.kind # "return"
             THEN [out |-> found, param |-> p, searchText |-> text]
             ELSE [out |-> Returned(found.value),
                   param |-> modelId,
                   searchText |-> SearchBoxAfter(found.value,
                                      useTranslatedKeywords, ui, tr, ms, text)]

\* Faulty variant: the search box is filled outside any try block.
SetModelByIdUnguarded(modelId, env, useTranslatedKeywords, ui, tr, ms, p, text) ==
    IF env = "unavailable"
    THEN [out |-> HostUnavailable, param |-> p, searchText |-> text]
    ELSE LET found == FindModelId(modelId, "given", ms)
         IN  IF found.kind # "return"
             THEN [out |-> found, param |-> p, searchText |-> text]
             ELSE IF ui \in {"noSlicer", "lookupFails", "keywordsFail", "setTextFails"}
                  THEN [out |-> [kind |-> "Exception"],
                        param |-> found.value, searchText |-> text]
                  ELSE [out |-> Returned(found.value),
                        param |-> found.value,
                        searchText |-> SearchBoxAfter(found.value,
                                           useTranslatedKeywords, ui, tr, ms, text)]

\* Faulty variant: the parameter is written before the id is resolved.
SetModelByIdWritingFirst(modelId, env, useTranslatedKeywords, ui, tr, ms, p, text) ==
    IF env = "unavailable"
    THEN [out |-> HostUnavailable, param |-> p, searchText |-> text]
    ELSE LET found == FindModelId(modelId, "given", ms)
         IN  IF found.kind # "return"
             THEN [out |-> found, param |-> modelId, searchText |-> text]
             ELSE [out |-> Returned(found.value),
                   param |-> found.value,
                   searchText |-> SearchBoxAfter(found.value,
                                      useTranslatedKeywords, ui, tr, ms, text)]

\* setModelById(modelId, logic=None, useTranslatedKeywords=True): its outcome
\* and the parameter "Model" and the search box text it leaves
SetModelById(modelId, env, useTranslatedKeywords, ui, tr, ms, p, text) ==
    IF env = "unavailable"
    THEN [out |-> HostUnavailable, param |-> p, searchText |-> text]
    ELSE LET found == FindModelId(modelId, "given", ms)
         IN  IF found.kind # "return"
             THEN [out |-> found, param |-> p, searchText |-> text]
             ELSE [out |-> Returned(found.value),
                   param |-> found.value,
                   searchText |-> SearchBoxAfter(found.value,
                                      useTranslatedKeywords, ui, tr, ms, text)]

---------------------------------------------------------------------------
(* The collections the host can hold and the ids callers ask for.          *)

Ver(a, b, c) == <<"-", "v", a, ".", b, ".", c>>

IdA1 == <<"a">> \o Ver("1", "0", "0")
IdA2 == <<"a">> \o Ver("2", "0", "0")
IdAvb == <<"a", "-", "v", "b">> \o Ver("1", "0", "0")
\* an id whose base name itself ends in a version
IdA1v1 == IdA1 \o Ver("1", "0", "0")

\* the version field parallels the suffix of the id
VersionOf(id) == SubSeq(id, Len(id) - 4, Len(id))

Descriptor(id, title, dep) ==
    IF dep = "absent"
    THEN [id |-> id, title |-> title, version |-> VersionOf(id)]
    ELSE [id |-> id, title |-> title, version |-> VersionOf(id),
          deprecated |-> (dep = "true")]

Pool ==
    { Descriptor(IdA1, TitleTwo, "false"),
      Descriptor(IdA1, TitleStops, "true"),
      Descriptor(IdA1, TitleFour, "absent"),
      Descriptor(IdA2, TitleSpaced, "false"),
      Descriptor(IdA2, TitleTwo, "true"),
      Descriptor(IdA2, TitleOne, "absent"),
      Descriptor(IdAvb, TitleBlank, "false"),
      Descriptor(IdAvb, TitleFour, "true"),
      Descriptor(IdAvb, TitleStops, "absent"),
      Descriptor(IdA1v1, TitleTwo, "false") }

DigitChar(n) == <<"0", "1", "2">>[n + 1]

\* the n-th generated descriptor, of base name "f"
FillerModel(n) ==
    Descriptor(<<"f">> \o Ver(DigitChar(n \div 9), DigitChar((n \div 3) % 3),
                              DigitChar(n % 3)),
               TitleTwo,
               IF n % 4 = 3 THEN "true" ELSE IF n % 4 = 1 THEN "absent" ELSE "false")

\* k generated descriptors, newest first
Filler(k) == [i \in 1..k |-> FillerModel(k - i)]

FillLens == {0, MaxFill - 1, MaxFill}

Cores == UNION {[1..n -> Pool] : n \in 0..MaxModels}

Collections == {core \o Filler(k) : core \in Cores, k \in FillLens}

Requests ==
    { IdA1, IdA2, IdAvb,
      <<"a">> \o Ver("1", "0", "1"),
      <<"a">>,
      <<"a", "-", "v", "1", ".", "0">>,
      IdA1 \o <<NL>>,
      <<"c">> \o Ver("1", "0", "0"),
      IdA1 \o Ver("2", "0", "0"),
      Ver("1", "0", "0"),
      <<"f">> \o Ver("2", "2", "2") }

KeywordRequests ==
    { IdA1, IdA2, IdAvb, <<"a">> \o Ver("1", "0", "1"), <<"a">> }

\* the base names findModelsByBaseName is asked for
BaseNames ==
    { <<"a">>, <<"a", "-", "v", "b">>, <<"f">>, <<"c">> }

\* the collections and the ids the wrapper is run on
SetPool ==
    { Descriptor(IdA1, TitleTwo, "false"),
      Descriptor(IdA1, TitleStops, "true"),
      Descriptor(IdA2, TitleOne, "absent"),
      Descriptor(IdAvb, TitleFour, "true") }

SetCollections == UNION {[1..n -> SetPool] : n \in 0..MaxModels}

SetRequests ==
    { IdA1, IdAvb, <<"a">> \o Ver("1", "0", "1"), IdA1 \o <<NL>>, <<"a">> }

---------------------------------------------------------------------------
(* The state machine: the host builds the collection, callers call the     *)
(* functions one at a time.                                                *)

NoCall == [op |-> "none"]

\* the test not started, an empty scene, no file written
NoTest == [pc |-> "idle"]
NoScene == {}
NoFiles == [exists |-> FALSE]

Init ==
    /\ models \in Collections
    /\ param = <<>>
    /\ searchText = <<>>
    /\ last = NoCall
    /\ test = NoTest
    /\ scene = NoScene
    /\ files = NoFiles

\* Faulty variant: the call drops the deprecated models from the collection.
CallFindModelIdPruning(preferredModelId, env) ==
    /\ last = NoCall
    /\ last' = [op |-> "findModelId", modelId |-> preferredModelId, env |-> env,
                out |-> FindModelId(preferredModelId, env, models)]
    /\ models' = SelectSeq(models, LAMBDA model : ~GetDeprecated(model))
    /\ UNCHANGED <<param, searchText, test, scene, files>>

CallFindModelId(preferredModelId, env) ==
    /\ last = NoCall
    /\ last' = [op |-> "findModelId", modelId |-> preferredModelId, env |-> env,
                out |-> FindModelId(preferredModelId, env, models)]
    /\ UNCHANGED <<models, param, searchText, test, scene, files>>

CallGetModelSearchKeywords(modelId, env, tr) ==
    /\ last = NoCall
    /\ last' = [op |-> "getModelSearchKeywords", modelId |-> modelId, env |-> env,
                tr |-> tr,
                out |-> GetModelSearchKeywords(modelId, env, tr, models)]
    /\ UNCHANGED <<models, param, searchText, test, scene, files>>

CallTutorialFindModelId(preferredModelId, env) ==
    /\ last = NoCall
    /\ last' = [op |-> "Slicer4MinuteTest.findModelId",
                modelId |-> preferredModelId, env |-> env,
                out |-> TutorialFindModelId(preferredModelId, env, models)]
    /\ UNCHANGED <<models, param, searchText, test, scene, files>>

CallListAvailableModels(env, showDeprecated) ==
    /\ last = NoCall
    /\ last' = [op |-> "listAvailableModels", env |-> env,
                showDeprecated |-> showDeprecated,
                out |-> ListAvailableModels(env, showDeprecated, models)]
    /\ UNCHANGED <<models, param, searchText, test, scene, files>>

CallFindModelsByBaseName(baseName, env, includeDeprecated) ==
    /\ last = NoCall
    /\ last' = [op |-> "findModelsByBaseName", baseName |-> baseName, env |-> env,
                includeDeprecated |-> includeDeprecated,
                out |-> FindModelsByBaseName(baseName, env, includeDeprecated,
                                             models)]
    /\ UNCHANGED <<models, param, searchText, test, scene, files>>

\* the call returns to its caller
Return ==
    /\ last # NoCall
    /\ last' = NoCall
    /\ UNCHANGED <<models, param, searchText, test, scene, files>>

Next ==
    \/ \E x \in Requests, env \in LogicEnvs : CallFindModelId(x, env)
    \/ \E x \in KeywordRequests, env \in LogicEnvs, tr \in TranslateEnvs :
           CallGetModelSearchKeywords(x, env, tr)
    \/ \E x \in Requests, env \in LogicEnvs : CallTutorialFindModelId(x, env)
    \/ \E env \in LogicEnvs, showDeprecated \in BOOLEAN :
           CallListAvailableModels(env, showDeprecated)
    \/ \E b \in BaseNames, env \in LogicEnvs, includeDeprecated \in BOOLEAN :
           CallFindModelsByBaseName(b, env, includeDeprecated)
    \/ Return

Spec == Init /\ [][Next]_vars

---------------------------------------------------------------------------
(* The wrapper run against the parameter node and the search box.          *)

InitSet ==
    /\ models \in SetCollections
    /\ param = <<>>
    /\ searchText = <<>>
    /\ last = NoCall
    /\ test = NoTest
    /\ scene = NoScene
    /\ files = NoFiles

CallSetModelById(modelId, env, useTranslatedKeywords, ui, tr) ==
    /\ last = NoCall
    /\ LET r == SetModelById(modelId, env, useTranslatedKeywords, ui, tr,
                             models, param, searchText)
       IN  /\ last' = [op |-> "setModelById", modelId |-> modelId, env |-> env,
                       useTranslatedKeywords |-> useTranslatedKeywords,
                       ui |-> ui, tr |-> tr, out |-> r.out]
           /\ param' = r.param
           /\ searchText' = r.searchText
    /\ UNCHANGED <<models, test, scene, files>>

NextSet ==
    \/ \E x \in SetRequests, env \in LogicEnvs, kw \in BOOLEAN, ui \in UiOutcomes :
           \E tr \in IF ui = "ok" /\ kw THEN TranslateEnvs ELSE {"identity"} :
               CallSetModelById(x, env, kw, ui, tr)
    \/ \E x \in SetRequests, env \in LogicEnvs : CallFindModelId(x, env)
    \/ Return

SpecSet == InitSet /\ [][NextSet]_vars

---------------------------------------------------------------------------
(* test_Slicer4Minute1: three segmentations, each awaited in a loop.       *)

\* the three parts of the test, in order
Phases == <<"prostate", "glioma", "wholeBody">>

\* the id each part asks findModelId for
ProstateRequest == <<"p","r","o","s","t","a","t","e">> \o Ver("1", "0", "1")
GliomaRequest == <<"b","r","a","t","s","-","g","l","i">> \o Ver("1", "0", "0")
WholeBodyRequest ==
    <<"w","h","o","l","e","-","b","o","d","y","-","3","m","m">> \o Ver("1", "0", "0")

PhaseRequest(p) ==
    CASE p = "prostate" -> ProstateRequest
      [] p = "glioma" -> GliomaRequest
      [] p = "wholeBody" -> WholeBodyRequest

\* the lower-case segment names one segmentation node must hold
ExpectedSegments(p) ==
    CASE p = "prostate" -> {"prostate pz", "prostate tz"}
      [] p = "glioma" -> {"necrosis"}
      [] p = "wholeBody" -> {"urinary bladder"}

\* where the test stands while part p waits, and once its loop is over
WaitPc(p) ==
    CASE p = "prostate" -> "prostateWait"
      [] p = "glioma" -> "gliomaWait"
      [] p = "wholeBody" -> "wholeBodyWait"

StartPc(p) ==
    CASE p = "prostate" -> "idle"
      [] p = "glioma" -> "gliomaStart"
      [] p = "wholeBody" -> "wholeBodyStart"

AfterPc(p) ==
    CASE p = "prostate" -> "gliomaStart"
      [] p = "glioma" -> "wholeBodyStart"
      [] p = "wholeBody" -> "finishing"

\* max_wait_time of the three segmentation loops, in seconds
MaxWaitTime == 300

\* seconds one pass of a loop can take: the sleep alone, or a slow pass
SlowPass == 100
PassSeconds == {1, SlowPass}

\* at most this many segmentation nodes are in the scene
MaxNodes == 2

\* the segmentation nodes a run can leave in the scene: their segment names
SegmentationNodes ==
    { {}, {"prostate pz"}, {"prostate pz", "prostate tz"},
      {"necrosis"}, {"urinary bladder", "liver"} }

\* the collections the test runs against
WaitCollections ==
    LET prostate == Descriptor(ProstateRequest, TitleTwo, "false")
        older == Descriptor(<<"p","r","o","s","t","a","t","e">> \o Ver("1", "0", "0"),
                            TitleTwo, "absent")
        glioma == Descriptor(GliomaRequest, TitleOne, "false")
        body == Descriptor(WholeBodyRequest, TitleStops, "false")
    IN  { <<prostate, glioma, body>>,
          <<older, glioma, body>>,
          <<prostate, body>>,
          <<prostate, glioma>>,
          <<>> }

\* nothing awaited yet
NoEnds == [p \in {"prostate", "glioma", "wholeBody"} |-> "none"]

InitWait ==
    /\ models \in WaitCollections
    /\ param = <<>>
    /\ searchText = <<>>
    /\ last = NoCall
    /\ test = [pc |-> "idle", elapsed |-> 0, segment_found |-> FALSE,
               ended |-> NoEnds]
    /\ scene = NoScene
    /\ files = NoFiles

\* The part of the test before a wait loop: segmentation nodes of the part
\* before are removed (setUp clears the scene), the data is loaded, the model
\* is chosen with findModelId, the search box is filled and Run is clicked.
\* loaded = FALSE is a step raising (for the whole body part: "Failed to load
\* DICOM data"); a ValueError of findModelId ends the test as well.
BeginPhase(p, loaded, tr) ==
    /\ test.pc = StartPc(p)
    /\ scene' = NoScene
    /\ LET found == TutorialFindModelId(PhaseRequest(p), "given", models)
       IN  IF ~loaded
           THEN /\ test' = [test EXCEPT !.pc = "failed"]
                /\ last' = [op |-> "test_Slicer4Minute1", part |-> p,
                            out |-> [kind |-> "Exception"]]
                /\ UNCHANGED <<param, searchText>>
           ELSE IF found.kind # "return"
                THEN /\ test' = [test EXCEPT !.pc = "failed"]
                     /\ last' = [op |-> "test_Slicer4Minute1", part |-> p,
                                 out |-> found]
                     /\ UNCHANGED <<param, searchText>>
                ELSE /\ param' = found.value
                     /\ searchText' =
                            TutorialGetModelSearchKeywords(found.value, tr, models)
                     /\ test' = [test EXCEPT !.pc = WaitPc(p),
                                             !.elapsed = 0,
                                             !.segment_found = FALSE]
                     /\ last' = [op |-> "test_Slicer4Minute1", part |-> p,
                                 out |-> found]
    /\ UNCHANGED <<models, files>>

\* `"..." in segment_names` for a node with at least one segment
NodeShowsSegments(node, p) ==
    /\ node # {}
    /\ ExpectedSegments(p) \subseteq node

\* One pass of `while not segment_found`: leave on timeout, else look for the
\* expected names in the segmentation nodes (an exception while looking is
\* printed and ignored), then sleep.  elapsed is time.time() - start_time at
\* the top of the pass, kept up to MaxWaitTime + 1.
WaitPass(p, seconds, checkRaises) ==
    /\ test.pc = WaitPc(p)
    /\ ~test.segment_found
    /\ IF test.elapsed > MaxWaitTime
       THEN test' = [test EXCEPT !.pc = AfterPc(p),
                                 !.ended[p] = "timeout"]
       ELSE IF ~checkRaises /\ \E node \in scene : NodeShowsSegments(node, p)
            THEN test' = [test EXCEPT !.pc = AfterPc(p),
                                      !.segment_found = TRUE,
                                      !.ended[p] = "found"]
            ELSE test' = [test EXCEPT !.elapsed =
                              IF test.elapsed + seconds > MaxWaitTime
                              THEN MaxWaitTime + 1
                              ELSE test.elapsed + seconds]
    /\ UNCHANGED <<models, param, searchText, last, scene, files>>

\* The running model adds a segmentation node to the scene, or never does.
SegmentationArrives(node) ==
    /\ test.pc \in {"prostateWait", "gliomaWait", "wholeBodyWait"}
    /\ node \notin scene
    /\ Cardinality(scene) < MaxNodes
    /\ scene' = scene \cup {node}
    /\ UNCHANGED <<models, param, searchText, last, test, files>>

\* the last screenshots and delayDisplay('Test passed!')
FinishTest ==
    /\ test.pc = "finishing"
    /\ test' = [test EXCEPT !.pc = "passed"]
    /\ UNCHANGED <<models, param, searchText, last, scene, files>>

NextWait ==
    \/ \E i \in 1..Len(Phases), loaded \in BOOLEAN, tr \in TranslateEnvs :
           BeginPhase(Phases[i], loaded, tr)
    \/ \E i \in 1..Len(Phases), seconds \in PassSeconds, checkRaises \in BOOLEAN :
           WaitPass(Phases[i], seconds, checkRaises)
    \/ \E node \in SegmentationNodes : SegmentationArrives(node)
    \/ FinishTest

SpecWait == InitWait /\ [][NextWait]_vars

---------------------------------------------------------------------------
(* setup_tutorial_files: the annotation and translation files handed to    *)
(* TutorialMaker.                                                          *)

\* tutorial names: one with an id prefix (and a second underscore), one bare
TutorialPrefixed == <<"S","1","_","W","_","X">>
TutorialBare == <<"H">>
TutorialNames == {TutorialPrefixed, TutorialBare}

Languages == {<<"e","n">>, <<"f","r">>}

\* tutorial_name.split('_', 1)[1] when the name holds '_', else the name
NameOnly(tutorial_name) ==
    IF \E i \in 1..Len(tutorial_name) : tutorial_name[i] = "_"
    THEN LET first == CHOOSE i \in 1..Len(tutorial_name) :
                          /\ tutorial_name[i] = "_"
                          /\ \A j \in 1..(i - 1) : tutorial_name[j] # "_"
         IN  SubSeq(tutorial_name, first + 1, Len(tutorial_name))
    ELSE tutorial_name

\* f"{name}.json" and f"text_dict_{language}.json"
JsonFile(name) == name \o <<".","j","s","o","n">>
TextDictFile(language) ==
    <<"t","e","x","t","_","d","i","c","t","_">> \o JsonFile(language)
AnnotationsJson == JsonFile(<<"a","n","n","o","t","a","t","i","o","n","s">>)

\* json_candidates, in order
JsonCandidates(tutorial_name) ==
    <<JsonFile(tutorial_name), JsonFile(NameOnly(tutorial_name))>>

\* what a file of Outputs/Annotations holds: nothing (no such file), the
\* empty dictionary, or a copy of a file of some tutorial's Translations
Absent == [kind |-> "absent"]
EmptyDict == [kind |-> "empty"]
CopyOf(dir, name) == [kind |-> "copy", dir |-> dir, name |-> name]

\* the files a tutorial's Translations directory can hold
TranslationFiles(dir) ==
    {JsonFile(dir), JsonFile(NameOnly(dir)), TextDictFile(<<"e","n">>)}

OutputFiles == {AnnotationsJson} \cup {TextDictFile(l) : l \in Languages}

InitSetup ==
    /\ models = <<>>
    /\ param = <<>>
    /\ searchText = <<>>
    /\ last = NoCall
    /\ test = NoTest
    /\ scene = NoScene
    /\ \E installed \in BOOLEAN :
       \E translations \in [TutorialNames -> SUBSET UNION {TranslationFiles(d) : d \in TutorialNames}] :
           /\ \A d \in TutorialNames : translations[d] \subseteq TranslationFiles(d)
           /\ files = [exists |-> installed,
                       annotationsDir |-> FALSE,
                       translations |-> translations,
                       annotations |-> [f \in OutputFiles |-> Absent]]

\* the first candidate that exists, 0 when none does
FirstExisting(candidates, present) ==
    IF \E i \in 1..Len(candidates) : candidates[i] \in present
    THEN CHOOSE i \in 1..Len(candidates) :
             /\ candidates[i] \in present
             /\ \A j \in 1..(i - 1) : candidates[j] \notin present
    ELSE 0

\* Outputs/Annotations after setup_tutorial_files has run: annotations.json
\* is overwritten only when a candidate exists; each language gets a copy of
\* its text_dict file or an empty dictionary
AnnotationsAfterSetup(tutorial_name, tutorial_dir, languages, fs) ==
    LET present == fs.translations[tutorial_dir]
        candidates == JsonCandidates(tutorial_name)
        copied == FirstExisting(candidates, present)
    IN  [f \in OutputFiles |->
            IF f = AnnotationsJson
            THEN IF copied # 0
                 THEN CopyOf(tutorial_dir, candidates[copied])
                 ELSE fs.annotations[f]
            ELSE IF \E l \in languages : f = TextDictFile(l)
                 THEN IF f \in present THEN CopyOf(tutorial_dir, f) ELSE EmptyDict
                 ELSE fs.annotations[f]]

\* setup_tutorial_files(tutorial_name, tutorial_dir, languages); without the
\* TutorialMaker extension find_tutorialmaker_dir ends the process
SetupTutorialFiles(tutorial_name, tutorial_dir, languages) ==
    /\ last = NoCall
    /\ IF ~files.exists
       THEN /\ last' = [op |-> "setup_tutorial_files",
                        tutorial_name |-> tutorial_name,
                        tutorial_dir |-> tutorial_dir,
                        languages |-> languages,
                        out |-> [kind |-> "SystemExit", code |-> 1]]
            /\ UNCHANGED files
       ELSE /\ last' = [op |-> "setup_tutorial_files",
                        tutorial_name |-> tutorial_name,
                        tutorial_dir |-> tutorial_dir,
                        languages |-> languages,
                        out |-> [kind |-> "return"]]
            /\ files' = [files EXCEPT
                            !.annotationsDir = TRUE,
                            !.annotations = AnnotationsAfterSetup(
                                tutorial_name, tutorial_dir, languages, files)]
    /\ UNCHANGED <<models, param, searchText, test, scene>>

\* the script has ended; the next run can start
SetupDone ==
    /\ last # NoCall
    /\ last' = NoCall
    /\ UNCHANGED <<models, param, searchText, test, scene, files>>

NextSetup ==
    \/ \E t \in TutorialNames, d \in TutorialNames, ls \in SUBSET Languages :
           SetupTutorialFiles(t, d, ls)
    \/ SetupDone

SpecSetup == InitSetup /\ [][NextSetup]_vars

---------------------------------------------------------------------------
(* Vocabulary of the properties, stated without the operators above.       *)

IdsOf(ms) == {ms[i].id : i \in 1..Len(ms)}

NonDeprecated(m) == ("deprecated" \notin DOMAIN m) \/ (m.deprecated = FALSE)

IsDigits(s) == Len(s) > 0 /\ \A i \in 1..Len(s) : s[i] \in Digits

DotPositions(x) == {i \in 1..Len(x) : x[i] = "."}

\* the k for which x is <k characters>-v<digits>.<digits>.<digits>
FormSplits(x) ==
    {k \in 1..Len(x) :
        /\ k + 2 <= Len(x)
        /\ x[k + 1] = "-"
        /\ x[k + 2] = "v"
        /\ \E p \in DotPositions(x), q \in DotPositions(x) :
               /\ k + 2 < p
               /\ p < q
               /\ IsDigits(SubSeq(x, k + 3, p - 1))
               /\ IsDigits(SubSeq(x, p + 1, q - 1))
               /\ IsDigits(SubSeq(x, q + 1, Len(x)))}

\* x has the form <base>-v<digits>.<digits>.<digits>, base not empty
HasVersionForm(x) == FormSplits(x) # {}

\* the base name of an id of that form
BaseNameOf(x) == SubSeq(x, 1, CHOOSE k \in FormSplits(x) : TRUE)

\* the positions of the non-deprecated descriptors whose id starts with base-v
Candidates(base, ms) ==
    {i \in 1..Len(ms) :
        /\ StartsWith(ms[i].id, base \o <<"-", "v">>)
        /\ NonDeprecated(ms[i])}

FirstOf(S) == CHOOSE i \in S : \A j \in S : i <= j

\* a call of findModelId that had a logic object to work with
Resolved ==
    /\ last.op = "findModelId"
    /\ last.env # "unavailable"

\* that call found no exact match and returned an id
FellBack ==
    /\ Resolved
    /\ last.modelId \notin IdsOf(models)
    /\ last.out.kind = "return"

---------------------------------------------------------------------------
\* C1: an id that is the id of some descriptor of the collection resolves to
\* itself, also when that descriptor is deprecated and newer non-deprecated
\* descriptors of the same base name are in the collection.
C1_ExactMatchWins ==
    (Resolved /\ last.modelId \in IdsOf(models))
        => last.out = [kind |-> "return", value |-> last.modelId]

\* an exact match on a deprecated descriptor listed after a newer,
\* non-deprecated one of the same base name
C1_Witness ==
    /\ Resolved
    /\ last.modelId = IdA1
    /\ last.out.kind = "return"
    /\ Len(models) >= 2
    /\ models[1].id = IdA2 /\ NonDeprecated(models[1])
    /\ models[2].id = IdA1 /\ ~NonDeprecated(models[2])

\* C2: an absent id of the form <base>-v<major>.<minor>.<patch> resolves to
\* the first non-deprecated descriptor, in collection order, whose id starts
\* with base-v, whatever the versions of the candidates.
C2_FirstCandidate ==
    (/\ Resolved
     /\ last.modelId \notin IdsOf(models)
     /\ HasVersionForm(last.modelId)
     /\ Candidates(BaseNameOf(last.modelId), models) # {})
        => last.out =
             [kind |-> "return",
              value |-> models[FirstOf(Candidates(BaseNameOf(last.modelId),
                                                  models))].id]

\* the fallback returned v1.0.0 although a non-deprecated v2.0.0 is listed
\* after it
C2_Witness ==
    /\ FellBack
    /\ last.out.value = IdA1
    /\ \E i \in 1..Len(models) : models[i].id = IdA2 /\ NonDeprecated(models[i])

\* C3: findModelId fails with the model-not-found error exactly when the id
\* is not in the collection and either has not the form
\* <base>-v<digits>.<digits>.<digits> or no non-deprecated descriptor has an
\* id starting with base-v.
C3_FailsExactlyWhen ==
    Resolved =>
        ( last.out.kind = "ValueError"
          <=> /\ last.modelId \notin IdsOf(models)
              /\ \/ ~HasVersionForm(last.modelId)
                 \/ Candidates(BaseNameOf(last.modelId), models) = {} )


\* the numbers of a run of digits and of the version of an id
DigitValue(c) == CHOOSE n \in 0..2 : DigitChar(n) = c

RECURSIVE NumberOf(_)
NumberOf(ds) ==
    IF ds = <<>>
    THEN 0
    ELSE 10 * NumberOf(SubSeq(ds, 1, Len(ds) - 1)) + DigitValue(ds[Len(ds)])

\* <<major, minor, patch>> of an id of the form <base>-v<major>.<minor>.<patch>
VersionTriple(x) ==
    LET k == CHOOSE n \in FormSplits(x) : TRUE
        dots == {i \in (k + 3)..Len(x) : x[i] = "."}
        p == CHOOSE i \in dots : \A j \in dots : i <= j
        q == CHOOSE i \in dots : \A j \in dots : j <= i
    IN  << NumberOf(SubSeq(x, k + 3, p - 1)),
           NumberOf(SubSeq(x, p + 1, q - 1)),
           NumberOf(SubSeq(x, q + 1, Len(x))) >>

VersionGreater(a, b) ==
    \/ a[1] > b[1]
    \/ a[1] = b[1] /\ a[2] > b[2]
    \/ a[1] = b[1] /\ a[2] = b[2] /\ a[3] > b[3]

\* the ordering the host is trusted to keep: per base name, the
\* non-deprecated descriptors are listed newest first
NewestFirst(ms) ==
    \A i \in 1..Len(ms), j \in 1..Len(ms) :
        (/\ i < j
         /\ NonDeprecated(ms[i])
         /\ NonDeprecated(ms[j])
         /\ BaseNameOf(ms[i].id) = BaseNameOf(ms[j].id))
            => ~VersionGreater(VersionTriple(ms[j].id), VersionTriple(ms[i].id))

\* C4: when the collection is listed newest first, a fallback for
\* <base>-v<ver> returns the latest version of the same base name: the
\* returned id has base name <base> and no non-deprecated descriptor of that
\* base name has a greater version.
C4_LatestSameBase ==
    (/\ FellBack
     /\ HasVersionForm(last.modelId)
     /\ NewestFirst(models))
        => /\ BaseNameOf(last.out.value) = BaseNameOf(last.modelId)
           /\ \A i \in 1..Len(models) :
                  (/\ NonDeprecated(models[i])
                   /\ BaseNameOf(models[i].id) = BaseNameOf(last.modelId))
                      => ~VersionGreater(VersionTriple(models[i].id),
                                         VersionTriple(last.out.value))

\* the position of the k-th non-deprecated descriptor
NonDeprecatedAt(ms) == {i \in 1..Len(ms) : NonDeprecated(ms[i])}

NthNonDeprecated(k, ms) ==
    CHOOSE i \in NonDeprecatedAt(ms) :
        Cardinality({j \in NonDeprecatedAt(ms) : j < i}) = k - 1

\* C5: the error of findModelId names the requested id and lists the first
\* min(10, n) of the n non-deprecated ids in collection order; it counts the
\* rest exactly when n > 10, and the count is n - 10.
C5_ErrorPayload ==
    (Resolved /\ last.out.kind = "ValueError")
        => LET n == Cardinality(NonDeprecatedAt(models))
               shown == IF n < 10 THEN n ELSE 10
           IN  /\ last.out.requested = last.modelId
               /\ last.out.listed =
                      [k \in 1..shown |-> models[NthNonDeprecated(k, models)].id]
               /\ (last.out.more # <<>>) <=> (n > 10)
               /\ (n > 10) => last.out.more = <<n - 10>>

\* a failure against a collection of more than 10 non-deprecated descriptors
\* with a deprecated one among the first ten shown positions
C5_Witness ==
    /\ Resolved
    /\ last.out.kind = "ValueError"
    /\ Cardinality(NonDeprecatedAt(models)) > 10
    /\ last.out.more # <<>>
    /\ Len(last.out.listed) = 10
    /\ \E i \in 1..10 : ~NonDeprecated(models[i])

\* C6: a call of findModelId leaves the collection as it was, whether it
\* returns the exact match, returns a fallback or fails.
C6_CollectionUntouched ==
    [][last'.op = "findModelId" => models' = models]_vars

\* a call of findModelId that fell back, on a collection with a deprecated
\* descriptor
C6_Witness ==
    /\ FellBack
    /\ \E i \in 1..Len(models) : ~NonDeprecated(models[i])

\* C9: getModelSearchKeywords always returns; it returns the empty string
\* when no descriptor has the given id, and when no logic is given and the
\* extension cannot be imported.
C9_KeywordsNeverRaise ==
    last.op = "getModelSearchKeywords"
        => /\ last.out.kind = "return"
           /\ last.modelId \notin IdsOf(models) => last.out.value = <<>>
           /\ last.env = "unavailable" => last.out.value = <<>>

\* a call without logic while the extension cannot be imported, for an id
\* that is in the collection
C9_Witness ==
    /\ last.op = "getModelSearchKeywords"
    /\ last.env = "unavailable"
    /\ last.modelId \in IdsOf(models)
    /\ last.out = [kind |-> "return", value |-> <<>>]

\* the stop-words, and the tokens of a title that survive the filter
StopWords ==
    { <<"s","e","g","m","e","n","t","a","t","i","o","n">>,
      <<"q","u","i","c","k">>, <<"-">>, <<"t","s","1">>, <<"t","s","2">>,
      <<"v","1">>, <<"v","2">>, <<"t","h","e">> }

Survives(token) == Lower(token) \notin StopWords /\ Len(token) > 2

\* the translated title of the first descriptor with the id of the call
TitleShown ==
    LET i == CHOOSE n \in 1..Len(models) :
                 /\ models[n].id = last.modelId
                 /\ \A j \in 1..(n - 1) : models[j].id # last.modelId
    IN  Translate(last.tr, models[i].title)

\* a call of getModelSearchKeywords that found its descriptor
FoundTitle ==
    /\ last.op = "getModelSearchKeywords"
    /\ last.env # "unavailable"
    /\ last.modelId \in IdsOf(models)

\* C10: when some token of the translated title survives the filter, the
\* result is the first one or two surviving tokens, in order and in their
\* original case, joined by one space.
C10_FirstTwoKeywords ==
    (FoundTitle /\ SelectSeq(Split(TitleShown), Survives) # <<>>)
        => LET kept == SelectSeq(Split(TitleShown), Survives)
           IN  last.out =
                 [kind |-> "return",
                  value |-> IF Len(kept) = 1
                            THEN kept[1]
                            ELSE kept[1] \o <<" ">> \o kept[2]]

\* a title of exactly two tokens, both passing the filter, gave both
C10_Witness ==
    /\ FoundTitle
    /\ TitleShown = TitleTwo
    /\ Len(Split(TitleShown)) = 2
    /\ last.out.value = <<"A","b","c"," ","X","y","z">>


---------------------------------------------------------------------------
(* Properties of the wrapper, under SpecSet.                               *)

\* a call of setModelById that returned
SetReturned ==
    /\ last.op = "setModelById"
    /\ last.out.kind = "return"

\* C7: after setModelById returns, parameter "Model" holds the returned id,
\* and the returned id is the one findModelId gives for the same collection:
\* the requested id on an exact match, the fallback id otherwise.
C7_ModelParameterSet ==
    SetReturned
        => /\ param = last.out.value
           /\ last.out = FindModelId(last.modelId, "given", models)
           /\ last.modelId \in IdsOf(models) => last.out.value = last.modelId
           /\ last.modelId \notin IdsOf(models)
                  => \E i \in 1..Len(models) :
                         /\ models[i].id = last.out.value
                         /\ NonDeprecated(models[i])

\* the wrapper returned a fallback id and recorded it
C7_Witness ==
    /\ SetReturned
    /\ last.out.value # last.modelId
    /\ param = last.out.value

\* C8: a failure while finding or writing the search box is swallowed: the
\* call returns the resolved id and parameter "Model" stays set to it.
C8_UiFailureSwallowed ==
    (/\ last.op = "setModelById"
     /\ last.env # "unavailable"
     /\ last.ui # "ok"
     /\ FindModelId(last.modelId, "given", models).kind = "return")
        => /\ last.out = FindModelId(last.modelId, "given", models)
           /\ param = last.out.value

\* setText raised in a call that fell back, and the call returned with the
\* parameter set to the fallback id
C8_Witness ==
    /\ SetReturned
    /\ last.ui = "setTextFails"
    /\ last.out.value # last.modelId
    /\ param = last.out.value


---------------------------------------------------------------------------
\* C11: when no token of the translated title survives the filter, the result
\* is the first token of the title as it stands, and the empty string when
\* the title has no token.
C11_FirstRawToken ==
    (FoundTitle /\ SelectSeq(Split(TitleShown), Survives) = <<>>)
        => last.out =
             [kind |-> "return",
              value |-> IF Split(TitleShown) = <<>>
                        THEN <<>>
                        ELSE Split(TitleShown)[1]]

\* a title of a stop-word and a short word gave its first token, the stop-word
C11_Witness ==
    /\ FoundTitle
    /\ TitleShown = TitleStops
    /\ last.out.value = <<"T","S","1">>


---------------------------------------------------------------------------
\* C12: without a logic object and with the extension unavailable,
\* findModelId and setModelById fail with the host-unavailable error, never
\* with model-not-found and never with an id, and setModelById leaves the
\* parameter node and the search box as they were.
C12_HostUnavailable ==
    /\ [](( /\ last.op \in {"findModelId", "setModelById"}
            /\ last.env = "unavailable" )
              => last.out = [kind |-> "ImportError"])
    /\ [][( /\ last'.op = "setModelById"
            /\ last'.env = "unavailable" )
              => (param' = param /\ searchText' = searchText)]_vars

\* setModelById failed on the missing extension for an id of the collection,
\* after an earlier call had set the parameter
C12_Witness ==
    /\ last.op = "setModelById"
    /\ last.env = "unavailable"
    /\ last.modelId \in IdsOf(models)
    /\ last.out.kind = "ImportError"
    /\ param # <<>>


---------------------------------------------------------------------------
\* the k-th position of a set of positions
NthIn(S, k) == CHOOSE i \in S : Cardinality({j \in S : j < i}) = k - 1

\* the positions findModelsByBaseName is meant to pick
BaseNamePositions(baseName, includeDeprecated, ms) ==
    {i \in 1..Len(ms) :
        /\ StartsWith(ms[i].id, baseName \o <<"-", "v">>)
        /\ (includeDeprecated \/ NonDeprecated(ms[i]))}

\* C13: findModelsByBaseName returns the ids of the descriptors whose id
\* starts with baseName-v and that are non-deprecated (all of them when
\* includeDeprecated is true), in collection order, none omitted.
C13_ByBaseNameInOrder ==
    (last.op = "findModelsByBaseName" /\ last.env # "unavailable")
        => LET S == BaseNamePositions(last.baseName, last.includeDeprecated, models)
           IN  last.out =
                 [kind |-> "return",
                  value |-> [k \in 1..Cardinality(S) |-> models[NthIn(S, k)].id]]

\* a search without deprecated versions that returned several ids and
\* passed over a deprecated descriptor of the base name listed before them
C13_Witness ==
    /\ last.op = "findModelsByBaseName"
    /\ last.env # "unavailable"
    /\ ~last.includeDeprecated
    /\ Len(last.out.value) >= 2
    /\ StartsWith(models[1].id, last.baseName \o <<"-", "v">>)
    /\ ~NonDeprecated(models[1])

\* the positions listAvailableModels is meant to list
ListedPositions(showDeprecated, ms) ==
    {i \in 1..Len(ms) : showDeprecated \/ NonDeprecated(ms[i])}

\* C14: listAvailableModels returns one summary per non-deprecated descriptor
\* (per descriptor when showDeprecated is true), in collection order, with
\* the id, title and version of the descriptor and deprecated false when the
\* flag is absent.
C14_SummariesInOrder ==
    (last.op = "listAvailableModels" /\ last.env # "unavailable")
        => LET S == ListedPositions(last.showDeprecated, models)
           IN  /\ last.out.kind = "return"
               /\ Len(last.out.value) = Cardinality(S)
               /\ \A k \in 1..Cardinality(S) :
                      /\ last.out.value[k].id = models[NthIn(S, k)].id
                      /\ last.out.value[k].title = models[NthIn(S, k)].title
                      /\ last.out.value[k].version = models[NthIn(S, k)].version
                      /\ last.out.value[k].deprecated = ~NonDeprecated(models[NthIn(S, k)])
               /\ ~last.showDeprecated
                      => \A k \in 1..Len(last.out.value) :
                             last.out.value[k].deprecated = FALSE

\* a listing without deprecated models that passed over a deprecated first
\* descriptor and listed one whose flag is absent
C14_Witness ==
    /\ last.op = "listAvailableModels"
    /\ last.env # "unavailable"
    /\ ~last.showDeprecated
    /\ Len(models) >= 2
    /\ ~NonDeprecated(models[1])
    /\ "deprecated" \notin DOMAIN models[2]
    /\ Len(last.out.value) >= 1
    /\ last.out.value[1].id = models[2].id


---------------------------------------------------------------------------
\* C15: a call of setModelById whose id cannot be resolved fails with the
\* model-not-found error and leaves parameter "Model" and the text of the
\* search box as they were before the call.
C15_FailedSetChangesNothing ==
    [][( /\ last'.op = "setModelById"
         /\ last'.env # "unavailable"
         /\ FindModelId(last'.modelId, "given", models).kind = "ValueError" )
           => ( /\ last'.out.kind = "ValueError"
                /\ param' = param
                /\ searchText' = searchText )]_vars

\* a failed call after an earlier call had set the parameter and the text
C15_Witness ==
    /\ last.op = "setModelById"
    /\ last.out.kind = "ValueError"
    /\ param # <<>>
    /\ searchText # <<>>


---------------------------------------------------------------------------
\* C16: the tutorial's copy of the resolver gives the result of
\* model_selection_utils.findModelId for every id and collection; when the id
\* is absent and every descriptor whose id starts with base-v is deprecated,
\* it fails with model-not-found.
C16_TutorialCopyAgrees ==
    last.op = "Slicer4MinuteTest.findModelId"
        => LET reference == FindModelId(last.modelId, last.env, models)
           IN  /\ last.out.kind = reference.kind
               /\ reference.kind = "return" => last.out.value = reference.value


---------------------------------------------------------------------------
\* an id with two version-like parts: its base name has the versioned form too
DoubleVersioned(x) == HasVersionForm(x) /\ HasVersionForm(BaseNameOf(x))

\* C18: for an absent id with several version-like parts the base name is
\* everything before the last -v<digits>.<digits>.<digits>: the call fails
\* unless a non-deprecated descriptor has an id starting with that whole base
\* name and -v, and it returns only such an id.
C18_BaseIsAllBeforeLastSuffix ==
    (/\ Resolved
     /\ last.modelId \notin IdsOf(models)
     /\ DoubleVersioned(last.modelId))
        => IF Candidates(BaseNameOf(last.modelId), models) = {}
           THEN last.out.kind = "ValueError"
           ELSE /\ last.out.kind = "return"
                /\ StartsWith(last.out.value,
                              BaseNameOf(last.modelId) \o <<"-", "v">>)

\* a-v1.0.0-v2.0.0 was asked for, a-v2.0.0 is listed first, and the call
\* returned a-v1.0.0-v1.0.0
C18_Witness ==
    /\ Resolved
    /\ last.modelId = IdA1 \o Ver("2", "0", "0")
    /\ Len(models) >= 2
    /\ models[1].id = IdA2 /\ NonDeprecated(models[1])
    /\ last.out = [kind |-> "return", value |-> IdA1v1]


---------------------------------------------------------------------------
\* C19: a value R returned by findModelId (directly or through setModelById)
\* is the id of a descriptor of the collection, findModelId(R) over the same
\* collection returns R again, and setModelById(R) returns R and stores R as
\* parameter "Model", whatever the user interface does.
C19_ResolutionIdempotent ==
    (/\ last.op \in {"findModelId", "setModelById"}
     /\ last.out.kind = "return")
        => LET R == last.out.value
           IN  /\ R \in IdsOf(models)
               /\ FindModelId(R, "given", models) = Returned(R)
               /\ \A kw \in BOOLEAN, ui \in UiOutcomes, tr \in TranslateEnvs :
                      LET again == SetModelById(R, "given", kw, ui, tr,
                                                models, param, searchText)
                      IN  /\ again.out = Returned(R)
                          /\ again.param = R

\* findModelId returned an id other than the absent one it was asked for
C19_Witness ==
    /\ last.op = "findModelId"
    /\ last.out.kind = "return"
    /\ last.modelId \notin IdsOf(models)
    /\ last.out.value # last.modelId
    /\ last.out.value \in IdsOf(models)


---------------------------------------------------------------------------
\* C17: once the test has reached 'Test passed!', each of its three wait
\* loops ended because a segmentation node with the expected segment names
\* was seen, and none because the 300 seconds ran out.
C17_PassedMeansSegmentsSeen ==
    test.pc = "passed"
        => \A i \in 1..Len(Phases) : test.ended[Phases[i]] = "found"


---------------------------------------------------------------------------
\* C20: after setup_tutorial_files(T, dir, languages) has completed,
\* annotations.json is a copy of Translations/<T>.json of dir when that file
\* exists, otherwise of Translations/<T without id prefix>.json, and in no
\* case a copy of a file found for another tutorial in an earlier run.
C20_AnnotationsOfLatestTutorial ==
    (/\ last.op = "setup_tutorial_files"
     /\ last.out.kind = "return")
        => LET T == last.tutorial_name
               present == files.translations[last.tutorial_dir]
               annotations == files.annotations[AnnotationsJson]
           IN  IF JsonFile(T) \in present
               THEN annotations = CopyOf(last.tutorial_dir, JsonFile(T))
               ELSE IF JsonFile(NameOnly(T)) \in present
                    THEN annotations =
                             CopyOf(last.tutorial_dir, JsonFile(NameOnly(T)))
                    ELSE annotations = Absent

====
